---- MODULE Spec2Model ----
(* Model of the goose debug logger (src/logger.rs, logger_main) together   *)
(* with the parts of the load test that feed it: the virtual users that    *)
(* send debug records, the metrics aggregator and the controller that      *)
(* starts and stops the run.                                               *)
EXTENDS Integers, Sequences, FiniteSets, TLC

(***************************************************************************)
(* Bounds                                                                  *)
(***************************************************************************)
\* Requests the users perform at most, all together.
MaxReq == 2
\* Throttle: largest capacity, rate and hatching time (in time units).
MaxCap == 2
MaxRate == 2
MaxHatch == 1

(***************************************************************************)
(* Program constants                                                       *)
(***************************************************************************)
\* tests/defaults.rs: const USERS
USERS == 2
\* tests/defaults.rs: const RUN_TIME
RUN_TIME == 1

UserIds == 1..USERS

\* The two task sets of the test, assigned to the users in registration order.
KeyOf(u) == IF u % 2 = 1 THEN "GET /" ELSE "GET /about.html"
Keys == {KeyOf(u) : u \in UserIds}

\* Values the debug_log_format option can be given.
Formats == {"json", "raw", "csv"}
\* Values the debug_log_file option can be given ("" = not configured).
Paths == {"", "debug-test.log"}

VARIABLES
    configuration,    \* GooseConfiguration: debug_log_file, debug_log_format
    ctrlPc,           \* controller: position in the run's life cycle
    drainTimeout,     \* controller shut down while a user was still running
    userState,        \* per user: "Idle", "Running", "Done"
    reqCount,         \* per user: requests performed
    metricsChan,      \* channel of request outcomes to the aggregator
    requests,         \* aggregator: key -> counters
    metrics_file,     \* aggregator: number of lines of the metrics file
    users,            \* metrics: number of users started
    ctrlSender,       \* controller still holds its debug channel sender
    log_receiver,     \* debug channel: queue of Option<GooseDebug>
    sent,             \* history: records in the order they were sent
    sinkPc,           \* logger_main: position
    debug_log_file,   \* logger_main: Option<BufWriter<File>>, "None"/"Some"
    goose_debug,      \* logger_main: record being written (<<>> if none)
    lastRecv,         \* logger_main: what the last recv() returned
    handled,          \* history: records received, with what became of them
    buffered,         \* bytes held by the BufWriter, not yet in the file
    fileExists,       \* file system: the debug file exists
    disk,             \* file system: content of the debug file
    flushed,          \* logger_main: outcome of the final flush
    created,          \* logger_main: outcome of File::create
    atCreate,         \* history, kept only when on: the number of records
                      \* sent and whether the file existed when File::create
                      \* returned the file
    noneAt,           \* history: records sent before the empty message
    throttle          \* the throttle: parameters, tokens, time and history

vars == <<configuration, ctrlPc, drainTimeout, userState, reqCount,
          metricsChan, requests, metrics_file, users, ctrlSender,
          log_receiver, sent, sinkPc,
          debug_log_file, goose_debug, lastRecv, handled, buffered,
          fileExists, disk, flushed, created, atCreate, noneAt, throttle>>

ctrlVars == <<ctrlPc, drainTimeout, ctrlSender, noneAt>>
userVars == <<userState, reqCount>>
aggVars  == <<metricsChan, requests, metrics_file, users>>
sinkVars == <<sinkPc, debug_log_file, goose_debug, lastRecv, handled,
              buffered, flushed, created, atCreate>>
fsVars   == <<fileExists, disk>>

(***************************************************************************)
(* Messages and file content                                               *)
(***************************************************************************)
\* A debug record is identified by its user and the number of the request.
Rec(u, n) == <<u, n>>
NoRec == <<>>

\* Option<GooseDebug> as carried by the channel.
SomeMsg(r) == [some |-> TRUE, rec |-> r]
NoneMsg == [some |-> FALSE, rec |-> NoRec]

\* The file is a sequence of bytes; a byte is the body of a rendered record
\* (in one of the two formats), a newline, or content from before the run.
Byte(k, r) == [kind |-> k, rec |-> r]
NL(r) == Byte("nl", r)
StaleContent == <<Byte("stale", NoRec), NL(NoRec)>>

\* The panic of unreachable!().
Unreachable == <<>>

\* Mutant of formatted_log: the "raw" arm is missing.
formatted_log_NoRaw(format, r) ==
    CASE format = "json" -> <<Byte("json", r)>>
      [] OTHER           -> Unreachable

\* logger.rs:48-54  the match on configuration.debug_log_format
formatted_log(format, r) ==
    CASE format = "json" -> <<Byte("json", r)>>
      [] format = "raw"  -> <<Byte("raw", r)>>
      [] OTHER           -> Unreachable

\* logger.rs:56  format!("{}\n", formatted_log)
Line(format, r) == formatted_log(format, r) \o <<NL(r)>>

Prefix(s, n) == SubSeq(s, 1, n)

\* The process is gone once std::process::exit(1) ran.
Alive == sinkPc # "exited"

\* logger_main has not returned: it still owns the receiver, and a send on
\* the channel queues the message.
ReceiverAlive == sinkPc \notin {"done", "panicked"}

\* All senders of the debug channel are dropped.
AllSendersDropped ==
    /\ ~ctrlSender
    /\ \A u \in UserIds : userState[u] # "Running"

(***************************************************************************)
(* Initial state                                                           *)
(***************************************************************************)
ZeroCounters == [success_count |-> 0, fail_count |-> 0,
                 response_time_counter |-> 0]

\* A run before its first step, whatever the throttle.
InitRun ==
    /\ configuration \in [debug_log_file : Paths, debug_log_format : Formats]
    /\ ctrlPc = "setup"
    /\ drainTimeout = FALSE
    /\ userState = [u \in UserIds |-> "Idle"]
    /\ reqCount = [u \in UserIds |-> 0]
    /\ metricsChan = <<>>
    /\ requests = [k \in Keys |-> ZeroCounters]
    /\ metrics_file = 0
    /\ users = 0
    /\ ctrlSender = TRUE
    /\ log_receiver = <<>>
    /\ sent = <<>>
    /\ sinkPc = "unspawned"
    /\ debug_log_file = "None"
    /\ goose_debug = NoRec
    /\ lastRecv = "nothing"
    /\ handled = <<>>
    /\ buffered = <<>>
    /\ \/ fileExists = FALSE /\ disk = <<>>
       \/ fileExists = TRUE /\ disk = StaleContent
    /\ flushed = "no"
    /\ created = "no"
    /\ noneAt = -1

\* No throttle is configured: acquire() is a no-op.
NoThrottle ==
    [C |-> 0, R |-> 0, hatch |-> 0, initial |-> 0, tokens |-> 0, now |-> 0,
     acq |-> <<0>>]

\* The history of File::create is not kept.
NoHistory == [on |-> FALSE, sent |-> -1, truncated |-> FALSE]

\* What the history records when File::create returns the file.
AtCreate ==
    IF atCreate.on
    THEN [on |-> TRUE, sent |-> Len(sent), truncated |-> fileExists]
    ELSE atCreate

Init ==
    /\ InitRun
    /\ throttle = NoThrottle
    /\ atCreate = NoHistory

(***************************************************************************)
(* Controller                                                              *)
(***************************************************************************)
\* Configuration errors are detected before any user starts.
ValidFormat(format) == format \in {"json", "raw"}

\* Validate the configuration, then spawn the logger task.
CtrlSetup ==
    /\ ctrlPc = "setup"
    /\ IF ValidFormat(configuration.debug_log_format)
       THEN /\ ctrlPc' = "hatching"
            /\ sinkPc' = "create"
       ELSE /\ ctrlPc' = "setup_failed"
            /\ sinkPc' = sinkPc
    /\ UNCHANGED <<configuration, throttle, drainTimeout, userVars, aggVars,
                   ctrlSender, noneAt, log_receiver, sent, debug_log_file,
                   goose_debug, lastRecv, handled, buffered, fsVars, flushed,
                   created, atCreate>>

\* Mutant of CtrlHatch: hatching is declared complete after the first
\* user.
CtrlHatch_Short ==
    /\ Alive
    /\ ctrlPc = "hatching"
    /\ \E u \in UserIds :
        /\ userState[u] = "Idle"
        /\ \A v \in UserIds : v < u => userState[v] # "Idle"
        /\ userState' = [userState EXCEPT ![u] = "Running"]
        /\ ctrlPc' = "running"
    /\ users' = users + 1
    /\ UNCHANGED <<configuration, throttle, drainTimeout, reqCount,
                   metricsChan, requests, metrics_file, ctrlSender, noneAt,
                   log_receiver, sent, sinkVars, fsVars>>

\* Spawn the next user, bound to the next TaskSet; it gets a clone of the
\* debug channel sender, and the metrics count it as started.
CtrlHatch ==
    /\ Alive
    /\ ctrlPc = "hatching"
    /\ \E u \in UserIds :
        /\ userState[u] = "Idle"
        /\ \A v \in UserIds : v < u => userState[v] # "Idle"
        /\ userState' = [userState EXCEPT ![u] = "Running"]
        /\ ctrlPc' = IF u = USERS THEN "running" ELSE "hatching"
    /\ users' = users + 1
    /\ UNCHANGED <<configuration, throttle, drainTimeout, reqCount,
                   metricsChan, requests, metrics_file, ctrlSender, noneAt,
                   log_receiver, sent, sinkVars, fsVars>>

\* The run timer expires: broadcast the stop signal.
CtrlStop ==
    /\ Alive
    /\ ctrlPc = "running"
    /\ ctrlPc' = "stopping"
    /\ UNCHANGED <<configuration, throttle, drainTimeout, userVars, aggVars,
                   ctrlSender, noneAt, log_receiver, sent, sinkVars, fsVars>>

\* After the users exited (or the drain timeout passed): tell the logger to
\* exit with an empty message.
CtrlSendNone ==
    /\ Alive
    /\ ctrlPc = "stopping"
    /\ ctrlPc' = "shutdown"
    /\ drainTimeout' = (\E u \in UserIds : userState[u] = "Running")
    /\ log_receiver' = IF ReceiverAlive THEN Append(log_receiver, NoneMsg)
                                         ELSE log_receiver
    /\ noneAt' = Len(sent)
    /\ ctrlSender' = FALSE
    /\ UNCHANGED <<configuration, throttle, userVars, aggVars, sent, sinkVars,
                   fsVars>>

\* After the users exited (or the drain timeout passed): close the channel.
CtrlClose ==
    /\ Alive
    /\ ctrlPc = "stopping"
    /\ ctrlPc' = "shutdown"
    /\ drainTimeout' = (\E u \in UserIds : userState[u] = "Running")
    /\ ctrlSender' = FALSE
    /\ UNCHANGED <<configuration, throttle, userVars, aggVars, noneAt,
                   log_receiver, sent, sinkVars, fsVars>>

\* The logger confirmed its exit and the aggregator drained its channel:
\* take the final snapshot.
CtrlFinish ==
    /\ Alive
    /\ ctrlPc = "shutdown"
    /\ sinkPc = "done"
    /\ metricsChan = <<>>
    /\ \A u \in UserIds : userState[u] = "Done"
    /\ ctrlPc' = "finished"
    /\ UNCHANGED <<configuration, throttle, drainTimeout, userVars, aggVars,
                   ctrlSender, noneAt, log_receiver, sent, sinkVars, fsVars>>

(***************************************************************************)
(* Virtual users                                                           *)
(***************************************************************************)
RECURSIVE SumTo(_, _)
SumTo(f, n) == IF n = 0 THEN 0 ELSE f[n] + SumTo(f, n - 1)
\* Requests performed so far by all users.
TotalReq == SumTo(reqCount, USERS)

\* Mutant of CanSend: a channel of capacity one.
CanSend_Bounded(q) == Len(q) < 1

\* logger.rs:14  log_receiver is the receiving end of an unbounded channel:
\* a send on it completes at once whatever the number of queued messages.
CanSend(q) == TRUE

\* One request with outcome ok: the outcome goes to the aggregator, and a
\* failed request also sends a debug record to the logger (the send fails,
\* and queues nothing, once the receiver is gone).
UserRequestOutcome(u, ok) ==
    /\ Alive
    /\ userState[u] = "Running"
    /\ TotalReq < MaxReq
    /\ reqCount' = [reqCount EXCEPT ![u] = @ + 1]
    /\ metricsChan' = Append(metricsChan, [key |-> KeyOf(u), success |-> ok])
    /\ IF ok \/ ~ReceiverAlive
       THEN UNCHANGED <<log_receiver, sent>>
       ELSE /\ CanSend(log_receiver)
            /\ log_receiver' =
                   Append(log_receiver, SomeMsg(Rec(u, reqCount[u] + 1)))
            /\ sent' = Append(sent, Rec(u, reqCount[u] + 1))
    /\ UNCHANGED <<configuration, throttle, ctrlVars, userState, requests,
                   metrics_file, users, sinkVars, fsVars>>

UserRequest(u) == \E ok \in BOOLEAN : UserRequestOutcome(u, ok)

\* The user sees the stop signal at the top of its loop and exits, dropping
\* its senders.
UserExit(u) ==
    /\ Alive
    /\ userState[u] = "Running"
    /\ ctrlPc \in {"stopping", "shutdown", "finished"}
    /\ userState' = [userState EXCEPT ![u] = "Done"]
    /\ UNCHANGED <<configuration, throttle, ctrlVars, reqCount, aggVars,
                   log_receiver, sent, sinkVars, fsVars>>

(***************************************************************************)
(* Metrics aggregator                                                      *)
(***************************************************************************)
\* Mutant of AggRecv: the aggregator takes an outcome and drops it.
AggRecv_Drop ==
    /\ Alive
    /\ metricsChan # <<>>
    /\ metricsChan' = Tail(metricsChan)
    /\ UNCHANGED <<configuration, throttle, ctrlVars, userVars, requests,
                   metrics_file, users, log_receiver, sent, sinkVars, fsVars>>

\* One outcome: the request is counted (response_time_counter counts the
\* response times recorded), as a success or a failure, and one line goes
\* to the metrics file.
AggRecv ==
    /\ Alive
    /\ metricsChan # <<>>
    /\ LET m == Head(metricsChan)
           c == requests[m.key]
       IN requests' = [requests EXCEPT ![m.key] =
             IF m.success
             THEN [c EXCEPT !.success_count = @ + 1,
                            !.response_time_counter = @ + 1]
             ELSE [c EXCEPT !.fail_count = @ + 1,
                            !.response_time_counter = @ + 1]]
    /\ metricsChan' = Tail(metricsChan)
    /\ metrics_file' = metrics_file + 1
    /\ UNCHANGED <<configuration, throttle, ctrlVars, userVars, users,
                   log_receiver, sent, sinkVars, fsVars>>

(***************************************************************************)
(* logger_main                                                             *)
(***************************************************************************)
\* What became of a received record: the number of bytes of its line that the
\* write accepted, or that the write failed, or that there is no file.
Handled(r, res, n) == [rec |-> r, result |-> res, n |-> n]

\* Mutant of SinkCreate: the file is created whether or not a path is
\* configured.
SinkCreate_IgnoreEmpty ==
    /\ sinkPc = "create"
    /\ \/ /\ fileExists' = TRUE
          /\ disk' = <<>>
          /\ debug_log_file' = "Some"
          /\ created' = "ok"
          /\ atCreate' = AtCreate
          /\ sinkPc' = "recv"
       \/ /\ created' = "err"
          /\ sinkPc' = "exited"
          /\ UNCHANGED <<debug_log_file, fsVars, atCreate>>
    /\ UNCHANGED <<configuration, throttle, ctrlVars, userVars, aggVars,
                   log_receiver, sent, goose_debug, lastRecv, handled,
                   buffered, flushed>>

\* Mutant of SinkCreate: the file is opened without truncating it.
SinkCreate_NoTruncate ==
    /\ sinkPc = "create"
    /\ IF configuration.debug_log_file = ""
       THEN /\ sinkPc' = "recv"
            /\ UNCHANGED <<debug_log_file, fsVars, created, atCreate>>
       ELSE \/ /\ fileExists' = TRUE
               /\ disk' = disk
               /\ debug_log_file' = "Some"
               /\ created' = "ok"
               /\ atCreate' = AtCreate
               /\ sinkPc' = "recv"
            \/ /\ created' = "err"
               /\ sinkPc' = "exited"
               /\ UNCHANGED <<debug_log_file, fsVars, atCreate>>
    /\ UNCHANGED <<configuration, throttle, ctrlVars, userVars, aggVars,
                   log_receiver, sent, goose_debug, lastRecv, handled,
                   buffered, flushed>>

\* logger.rs:17-35  open the debug file, if one is configured
SinkCreate ==
    /\ sinkPc = "create"
    /\ IF configuration.debug_log_file = ""
       THEN /\ sinkPc' = "recv"
            /\ UNCHANGED <<debug_log_file, fsVars, created, atCreate>>
       ELSE \/ /\ fileExists' = TRUE          \* Ok(f): created or truncated
               /\ disk' = <<>>
               /\ debug_log_file' = "Some"
               /\ created' = "ok"
               /\ atCreate' = AtCreate
               /\ sinkPc' = "recv"
            \/ /\ created' = "err"             \* Err(e): process::exit(1)
               /\ sinkPc' = "exited"
               /\ UNCHANGED <<debug_log_file, fsVars, atCreate>>
    /\ UNCHANGED <<configuration, throttle, ctrlVars, userVars, aggVars,
                   log_receiver, sent, goose_debug, lastRecv, handled,
                   buffered, flushed>>

\* Mutant of SinkRecvRecord: the loop starts receiving before the file is
\* created.
SinkRecvRecord_BeforeCreate ==
    /\ sinkPc \in {"create", "recv"}
    /\ log_receiver # <<>>
    /\ Head(log_receiver).some
    /\ LET message == Head(log_receiver) IN
        /\ log_receiver' = Tail(log_receiver)
        /\ lastRecv' = "record"
        /\ IF debug_log_file = "Some"
           THEN IF formatted_log(configuration.debug_log_format, message.rec)
                   = Unreachable
                THEN /\ sinkPc' = "panicked"
                     /\ UNCHANGED <<goose_debug, handled>>
                ELSE /\ sinkPc' = "write"
                     /\ goose_debug' = message.rec
                     /\ UNCHANGED handled
           ELSE /\ sinkPc' = sinkPc
                /\ handled' = Append(handled,
                                     Handled(message.rec, "discarded", 0))
                /\ UNCHANGED goose_debug
    /\ UNCHANGED <<configuration, throttle, ctrlVars, userVars, aggVars, sent,
                   debug_log_file, buffered, fsVars, flushed, created,
                   atCreate>>

\* logger.rs:41-54, 66  recv() returns a record: render it for the write, or
\* drop it if there is no file
SinkRecvRecord ==
    /\ sinkPc = "recv"
    /\ log_receiver # <<>>
    /\ Head(log_receiver).some
    /\ LET message == Head(log_receiver) IN
        /\ log_receiver' = Tail(log_receiver)
        /\ lastRecv' = "record"
        /\ IF debug_log_file = "Some"
           THEN IF formatted_log(configuration.debug_log_format, message.rec)
                   = Unreachable
                THEN /\ sinkPc' = "panicked"
                     /\ UNCHANGED <<goose_debug, handled>>
                ELSE /\ sinkPc' = "write"
                     /\ goose_debug' = message.rec
                     /\ UNCHANGED handled
           ELSE /\ sinkPc' = "recv"
                /\ handled' = Append(handled,
                                     Handled(message.rec, "discarded", 0))
                /\ UNCHANGED goose_debug
    /\ UNCHANGED <<configuration, throttle, ctrlVars, userVars, aggVars, sent,
                   debug_log_file, buffered, fsVars, flushed, created,
                   atCreate>>

\* Mutant of SinkRecvNone: the empty message is taken but the loop goes on.
SinkRecvNone_Continue ==
    /\ sinkPc = "recv"
    /\ log_receiver # <<>>
    /\ ~Head(log_receiver).some
    /\ log_receiver' = Tail(log_receiver)
    /\ lastRecv' = "shutdown"
    /\ sinkPc' = "recv"
    /\ UNCHANGED <<configuration, throttle, ctrlVars, userVars, aggVars, sent,
                   debug_log_file, goose_debug, handled, buffered, fsVars,
                   flushed, created, atCreate>>

\* logger.rs:69-72  recv() returns the empty message: break
SinkRecvNone ==
    /\ sinkPc = "recv"
    /\ log_receiver # <<>>
    /\ ~Head(log_receiver).some
    /\ log_receiver' = Tail(log_receiver)
    /\ lastRecv' = "shutdown"
    /\ sinkPc' = "cleanup"
    /\ UNCHANGED <<configuration, throttle, ctrlVars, userVars, aggVars, sent,
                   debug_log_file, goose_debug, handled, buffered, fsVars,
                   flushed, created, atCreate>>

\* Mutant of SinkRecvClosed: the loop ends as soon as every sender is
\* dropped, without taking what is still queued.
SinkRecvClosed_NoDrain ==
    /\ sinkPc = "recv"
    /\ AllSendersDropped
    /\ lastRecv' = "closed"
    /\ sinkPc' = "cleanup"
    /\ UNCHANGED <<configuration, throttle, ctrlVars, userVars, aggVars,
                   log_receiver, sent, debug_log_file, goose_debug, handled,
                   buffered, fsVars, flushed, created, atCreate>>

\* logger.rs:75-78  recv() returns None, the channel is closed (every sender
\* dropped and nothing left in the queue): break
SinkRecvClosed ==
    /\ sinkPc = "recv"
    /\ log_receiver = <<>>
    /\ AllSendersDropped
    /\ lastRecv' = "closed"
    /\ sinkPc' = "cleanup"
    /\ UNCHANGED <<configuration, throttle, ctrlVars, userVars, aggVars,
                   log_receiver, sent, debug_log_file, goose_debug, handled,
                   buffered, fsVars, flushed, created, atCreate>>

\* Mutant of SinkWriteOk: the new bytes are put in front of what the
\* BufWriter holds.
SinkWriteOk_Prepend ==
    /\ sinkPc = "write"
    /\ LET line == Line(configuration.debug_log_format, goose_debug) IN
       \E n \in 1..Len(line) :
        /\ \/ /\ buffered' = Prefix(line, n) \o buffered
              /\ disk' = disk
           \/ /\ buffered # <<>>
              /\ disk' = disk \o buffered
              /\ buffered' = Prefix(line, n)
        /\ handled' = Append(handled,
             Handled(goose_debug, IF n = Len(line) THEN "ok" ELSE "short", n))
    /\ sinkPc' = "recv"
    /\ goose_debug' = NoRec
    /\ UNCHANGED <<configuration, throttle, ctrlVars, userVars, aggVars,
                   log_receiver, sent, debug_log_file, lastRecv, fileExists,
                   flushed, created, atCreate>>

\* logger.rs:56-57  file.write() of the line returns Ok(n): the first n bytes
\* were accepted (1 <= n <= len); n is not looked at.  The BufWriter may pass
\* what it holds on to the file before it takes the new bytes.
SinkWriteOk ==
    /\ sinkPc = "write"
    /\ LET line == Line(configuration.debug_log_format, goose_debug) IN
       \E n \in 1..Len(line) :
        /\ \/ /\ buffered' = buffered \o Prefix(line, n)
              /\ disk' = disk
           \/ /\ buffered # <<>>
              /\ disk' = disk \o buffered
              /\ buffered' = Prefix(line, n)
        /\ handled' = Append(handled,
             Handled(goose_debug, IF n = Len(line) THEN "ok" ELSE "short", n))
    /\ sinkPc' = "recv"
    /\ goose_debug' = NoRec
    /\ UNCHANGED <<configuration, throttle, ctrlVars, userVars, aggVars,
                   log_receiver, sent, debug_log_file, lastRecv, fileExists,
                   flushed, created, atCreate>>

\* Mutant of SinkWriteErr: a failed write ends the loop.
SinkWriteErr_Break ==
    /\ sinkPc = "write"
    /\ handled' = Append(handled, Handled(goose_debug, "err", 0))
    /\ sinkPc' = "cleanup"
    /\ goose_debug' = NoRec
    /\ UNCHANGED <<configuration, throttle, ctrlVars, userVars, aggVars,
                   log_receiver, sent, debug_log_file, lastRecv, buffered,
                   fsVars, flushed, created, atCreate>>

\* Mutant of SinkWriteErr: a failed write ends the process, as a failed
\* create does.
SinkWriteErr_Exit ==
    /\ sinkPc = "write"
    /\ handled' = Append(handled, Handled(goose_debug, "err", 0))
    /\ sinkPc' = "exited"
    /\ goose_debug' = NoRec
    /\ UNCHANGED <<configuration, throttle, ctrlVars, userVars, aggVars,
                   log_receiver, sent, debug_log_file, lastRecv, buffered,
                   fsVars, flushed, created, atCreate>>

\* logger.rs:58-63  file.write() returns Err: warn and go on
SinkWriteErr ==
    /\ sinkPc = "write"
    /\ handled' = Append(handled, Handled(goose_debug, "err", 0))
    /\ sinkPc' = "recv"
    /\ goose_debug' = NoRec
    /\ UNCHANGED <<configuration, throttle, ctrlVars, userVars, aggVars,
                   log_receiver, sent, debug_log_file, lastRecv, buffered,
                   fsVars, flushed, created, atCreate>>

\* Mutant of SinkCleanup: before the flush, the records still queued are
\* written too.
SinkCleanup_DrainQueued ==
    /\ sinkPc = "cleanup"
    /\ IF log_receiver # <<>> /\ Head(log_receiver).some
          /\ debug_log_file = "Some"
       THEN LET r == Head(log_receiver).rec
                line == Line(configuration.debug_log_format, r)
            IN /\ log_receiver' = Tail(log_receiver)
               /\ buffered' = buffered \o line
               /\ handled' = Append(handled, Handled(r, "ok", Len(line)))
               /\ sinkPc' = "cleanup"
               /\ UNCHANGED <<disk, flushed>>
       ELSE /\ IF debug_log_file = "Some"
               THEN \/ /\ disk' = disk \o buffered
                       /\ buffered' = <<>>
                       /\ flushed' = "ok"
                    \/ /\ flushed' = "err"
                       /\ UNCHANGED <<buffered, disk>>
               ELSE UNCHANGED <<buffered, disk, flushed>>
            /\ sinkPc' = "done"
            /\ UNCHANGED <<log_receiver, handled>>
    /\ UNCHANGED <<configuration, throttle, ctrlVars, userVars, aggVars, sent,
                   debug_log_file, goose_debug, lastRecv, fileExists, created,
                   atCreate>>

\* Mutant of SinkCleanup: the flush writes the buffer at the start of the
\* file instead of its end.
SinkCleanup_Overwrite ==
    /\ sinkPc = "cleanup"
    /\ IF debug_log_file = "Some"
       THEN \/ /\ disk' = buffered
               /\ buffered' = <<>>
               /\ flushed' = "ok"
            \/ /\ flushed' = "err"
               /\ UNCHANGED <<buffered, disk>>
       ELSE UNCHANGED <<buffered, disk, flushed>>
    /\ sinkPc' = "done"
    /\ UNCHANGED <<configuration, throttle, ctrlVars, userVars, aggVars,
                   log_receiver, sent, debug_log_file, goose_debug, lastRecv,
                   handled, fileExists, created, atCreate>>

\* Mutant of SinkCleanup: logger_main returns without flushing.
SinkCleanup_NoFlush ==
    /\ sinkPc = "cleanup"
    /\ sinkPc' = "done"
    /\ UNCHANGED <<configuration, throttle, ctrlVars, userVars, aggVars,
                   log_receiver, sent, debug_log_file, goose_debug, lastRecv,
                   handled, buffered, fsVars, flushed, created, atCreate>>

\* logger.rs:82-92  flush the file, if there is one; a failure is ignored
SinkCleanup ==
    /\ sinkPc = "cleanup"
    /\ IF debug_log_file = "Some"
       THEN \/ /\ disk' = disk \o buffered     \* Ok(_)
               /\ buffered' = <<>>
               /\ flushed' = "ok"
            \/ /\ flushed' = "err"             \* Err(_)
               /\ UNCHANGED <<buffered, disk>>
       ELSE UNCHANGED <<buffered, disk, flushed>>
    /\ sinkPc' = "done"
    /\ UNCHANGED <<configuration, throttle, ctrlVars, userVars, aggVars,
                   log_receiver, sent, debug_log_file, goose_debug, lastRecv,
                   handled, fileExists, created, atCreate>>

Sink ==
    \/ SinkCreate
    \/ SinkRecvRecord
    \/ SinkRecvNone
    \/ SinkRecvClosed
    \/ SinkWriteOk
    \/ SinkWriteErr
    \/ SinkCleanup

(***************************************************************************)
(* Specification                                                           *)
(***************************************************************************)
Next ==
    \/ CtrlSetup
    \/ CtrlHatch
    \/ CtrlStop
    \/ CtrlSendNone
    \/ CtrlClose
    \/ CtrlFinish
    \/ \E u \in UserIds : UserRequest(u)
    \/ \E u \in UserIds : UserExit(u)
    \/ AggRecv
    \/ SinkCreate
    \/ SinkRecvRecord
    \/ SinkRecvNone
    \/ SinkRecvClosed
    \/ SinkWriteOk
    \/ SinkWriteErr
    \/ SinkCleanup

Spec == Init /\ [][Next]_vars

\* The runtime keeps scheduling the logger task while it can make a step.
FairSpec == Spec /\ WF_vars(Sink)

\* The same runs, with the history of File::create kept.
HistInit ==
    /\ InitRun
    /\ throttle = NoThrottle
    /\ atCreate = [NoHistory EXCEPT !.on = TRUE]

HistSpec == HistInit /\ [][Next]_vars

(***************************************************************************)
(* Throttle: a token bucket of capacity C refilled with R tokens per time  *)
(* unit.  Time advances in whole units; acq[i + 1] counts the tokens       *)
(* acquired at time i.  The run lasts the hatching time plus RUN_TIME.     *)
(***************************************************************************)
runVars == <<configuration, ctrlPc, drainTimeout, userState, reqCount,
             metricsChan, requests, metrics_file, users, ctrlSender,
             log_receiver, sent, sinkPc, debug_log_file, goose_debug,
             lastRecv, handled, buffered, fileExists, disk, flushed,
             created, atCreate, noneAt>>

Min(a, b) == IF a <= b THEN a ELSE b

\* Length of the run in time units: hatching, then the run time.
Duration == throttle.hatch + RUN_TIME

\* The test's run (raw format, debug file configured, no earlier file) with
\* a throttle of any capacity, rate and initial fill within the bounds.
ThrottleInit ==
    /\ InitRun
    /\ configuration = [debug_log_file |-> "debug-test.log",
                        debug_log_format |-> "raw"]
    /\ ~fileExists
    /\ atCreate = NoHistory
    /\ \E c \in 1..MaxCap, r \in 1..MaxRate, h \in 0..MaxHatch :
        \E t \in 0..c :
            throttle = [C |-> c, R |-> r, hatch |-> h, initial |-> t,
                        tokens |-> t, now |-> 0, acq |-> <<0>>]

\* A user takes a token before a request; with no token it waits.
ThrottleAcquire ==
    /\ throttle.tokens > 0
    /\ throttle' = [throttle EXCEPT !.tokens = @ - 1,
                                    !.acq[throttle.now + 1] = @ + 1]
    /\ UNCHANGED runVars

\* Mutant of ThrottleRefill: the refill ignores the capacity.
ThrottleRefill_Uncapped ==
    /\ throttle.now < Duration
    /\ throttle' = [throttle EXCEPT !.now = @ + 1,
                                    !.tokens = @ + throttle.R,
                                    !.acq = Append(@, 0)]
    /\ UNCHANGED runVars

\* One time unit passes: R tokens are added, up to the capacity.
ThrottleRefill ==
    /\ throttle.now < Duration
    /\ throttle' = [throttle EXCEPT !.now = @ + 1,
                                    !.tokens = Min(throttle.C, @ + throttle.R),
                                    !.acq = Append(@, 0)]
    /\ UNCHANGED runVars

ThrottleNext ==
    \/ ThrottleAcquire
    \/ ThrottleRefill

ThrottleSpec == ThrottleInit /\ [][ThrottleNext]_vars

(***************************************************************************)
(* Histories read by the properties                                        *)
(***************************************************************************)
\* The records queued in the channel, in order.
ChannelRecs(q) ==
    LET somes == SelectSeq(q, LAMBDA m : m.some)
    IN [i \in 1..Len(somes) |-> somes[i].rec]

\* The records the logger has taken from the channel, in order.
HandledRecs == [i \in 1..Len(handled) |-> handled[i].rec]
Consumed == HandledRecs \o (IF goose_debug = NoRec THEN <<>> ELSE <<goose_debug>>)

UsersOf(recs) == {recs[i][1] : i \in DOMAIN recs}

\* Everything written to the debug file so far, in order: what reached the
\* file and what the BufWriter still holds.
FileView == disk \o buffered

\* The lines the received records render to, one after the other.
RECURSIVE ExpectedLines(_)
ExpectedLines(h) ==
    IF h = <<>> THEN <<>>
    ELSE Line(configuration.debug_log_format, Head(h).rec)
         \o ExpectedLines(Tail(h))

\* The bytes the writes accepted, one record after the other.
RECURSIVE WrittenBytes(_)
WrittenBytes(h) ==
    IF h = <<>> THEN <<>>
    ELSE Prefix(Line(configuration.debug_log_format, Head(h).rec), Head(h).n)
         \o WrittenBytes(Tail(h))

\* The records whose rendering is in a file content, in the file's order.
RecsIn(f) ==
    LET bodies == SelectSeq(f, LAMBDA b : b.kind \in {"json", "raw"})
    IN [i \in 1..Len(bodies) |-> bodies[i].rec]

RECURSIVE IsSubSeq(_, _)
IsSubSeq(a, b) ==
    IF a = <<>> THEN TRUE
    ELSE IF b = <<>> THEN FALSE
    ELSE IF Head(a) = Head(b) THEN IsSubSeq(Tail(a), Tail(b))
    ELSE IsSubSeq(a, Tail(b))

\* tests/defaults.rs:146-152  file_length: the number of lines lines() yields,
\* a last line without newline included.
file_length(f) ==
    Cardinality({i \in DOMAIN f : f[i].kind = "nl"})
    + (IF f # <<>> /\ f[Len(f)].kind # "nl" THEN 1 ELSE 0)

\* Failed requests counted by the aggregator, over all keys.
RECURSIVE SumFail(_)
SumFail(ks) ==
    IF ks = {} THEN 0
    ELSE LET k == CHOOSE x \in ks : TRUE
         IN requests[k].fail_count + SumFail(ks \ {k})
fail_count == SumFail(Keys)

NoWriteError == \A i \in DOMAIN handled : handled[i].result # "err"
SomeWriteError == \E i \in DOMAIN handled : handled[i].result = "err"

\* What the logger has consumed when it has exited: the records sent ahead of
\* the empty message, or every record if it ended on channel closure.
DrainedAtExit ==
    sinkPc = "done" =>
        HandledRecs = IF lastRecv = "shutdown" THEN Prefix(sent, noneAt)
                                               ELSE sent

(***************************************************************************)
(* C1                                                                      *)
(***************************************************************************)
\* C1 as stated: when the logger has exited, every record that was sent has
\* been consumed exactly once and none is left in the channel.
C1_EverySentConsumedOnce ==
    sinkPc = "done" =>
        /\ HandledRecs = sent
        /\ ChannelRecs(log_receiver) = <<>>

\* C1 amended: every sent record is at any time either consumed once or still
\* queued (none is lost, none is consumed twice), and when the logger has
\* exited it has consumed exactly the records sent ahead of the empty
\* message, or every record if it ended on channel closure.
C1_SentAheadOfNoneConsumedOnce ==
    /\ sent = Consumed \o ChannelRecs(log_receiver)
    /\ DrainedAtExit

\* The logger exited on the empty message after consuming records of both
\* users.
C1_Witness ==
    /\ sinkPc = "done"
    /\ lastRecv = "shutdown"
    /\ UsersOf(HandledRecs) = UserIds

(***************************************************************************)
(* C2                                                                      *)
(***************************************************************************)
\* C2: the loop is left only after recv() returned the empty message or
\* found the channel closed, never on a record; and once either was
\* returned the logger goes on to terminate.
C2_LoopEndsOnNoneOrClosure ==
    /\ [](sinkPc \in {"cleanup", "done"} => lastRecv \in {"shutdown", "closed"})
    /\ [][lastRecv' = "record" => sinkPc' \in {"recv", "write"}]_vars
    /\ (lastRecv \in {"shutdown", "closed"}) ~> (sinkPc = "done")

\* The logger terminated on channel closure after taking a record.
C2_Witness ==
    /\ sinkPc = "done"
    /\ lastRecv = "closed"
    /\ handled # <<>>

(***************************************************************************)
(* C3                                                                      *)
(***************************************************************************)
\* C3: with a debug file open and no write error so far, the file holds
\* exactly one complete newline-terminated line per record received, in
\* order, and nothing else.
C3_OneLinePerRecord ==
    (debug_log_file = "Some" /\ NoWriteError) =>
        /\ FileView = ExpectedLines(handled)
        /\ file_length(FileView) = Len(handled)

(***************************************************************************)
(* C4                                                                      *)
(***************************************************************************)
\* C4: in a completed run with a debug file and failed requests (every user
\* exited before the logger was shut down, no write or flush error), the
\* debug file has as many lines as the aggregator counted failed requests.
C4_LinesEqualFailCount ==
    (/\ ctrlPc = "finished"
     /\ debug_log_file = "Some"
     /\ fail_count > 0
     /\ ~drainTimeout
     /\ NoWriteError
     /\ flushed = "ok") =>
        file_length(disk) = fail_count

(***************************************************************************)
(* C5                                                                      *)
(***************************************************************************)
\* C5: after a write error the logger is still running its loop or has left
\* it on the empty message or on channel closure only; the process is not
\* ended; every record received, before or after the error, has in the file
\* the bytes its own write accepted; and the logger still consumes every
\* record up to its shutdown.
C5_WriteErrorDoesNotStopSink ==
    SomeWriteError =>
        /\ sinkPc \in {"recv", "write", "cleanup", "done"}
        /\ sinkPc \in {"cleanup", "done"} => lastRecv \in {"shutdown", "closed"}
        /\ FileView = WrittenBytes(handled)
        /\ DrainedAtExit

\* A run finished in which a write failed and a later record was written
\* in full.
C5_Witness ==
    /\ ctrlPc = "finished"
    /\ \E i, j \in DOMAIN handled :
        /\ i < j
        /\ handled[i].result = "err"
        /\ handled[j].result = "ok"
        /\ Line(configuration.debug_log_format, handled[j].rec)
             = SubSeq(disk, Len(disk) - 1, Len(disk))

(***************************************************************************)
(* C6                                                                      *)
(***************************************************************************)
\* C6: the process is ended exactly when creating the configured debug file
\* failed, and then before the logger received anything; the logger never
\* panics; no write error, flush error or format value ends the process.
C6_OnlyCreateFailureExits ==
    /\ (sinkPc = "exited") <=> (created = "err")
    /\ created = "err" =>
          /\ configuration.debug_log_file # ""
          /\ lastRecv = "nothing"
          /\ handled = <<>>
          /\ goose_debug = NoRec
          /\ flushed = "no"
    /\ sinkPc # "panicked"

\* The process was ended by a failed create while a record was waiting in
\* the channel.
C6_Witness ==
    /\ sinkPc = "exited"
    /\ ChannelRecs(log_receiver) # <<>>

C8_NoPathDrainsAndDiscards ==
    /\ [](configuration.debug_log_file = "" =>
            /\ debug_log_file = "None"
            /\ created = "no"
            /\ flushed = "no"
            /\ buffered = <<>>
            /\ sinkPc \notin {"write", "exited", "panicked"}
            /\ \A i \in DOMAIN handled : handled[i].result = "discarded"
            /\ sent = Consumed \o ChannelRecs(log_receiver)
            /\ sinkPc \in {"cleanup", "done"}
                 => lastRecv \in {"shutdown", "closed"}
            /\ DrainedAtExit)
    /\ [][configuration.debug_log_file = "" => UNCHANGED fsVars]_vars

\* Without a path the logger terminated after discarding records of both
\* users, and no file was created.
C8_Witness ==
    /\ configuration.debug_log_file = ""
    /\ sinkPc = "done"
    /\ UsersOf(HandledRecs) = UserIds
    /\ ~fileExists

(***************************************************************************)
(* C9                                                                      *)
(***************************************************************************)
\* C9: when the logger has terminated with a file, it has flushed it, and
\* not before leaving the loop; after a successful flush the file holds
\* every byte the writes accepted and the BufWriter holds none; a failed
\* flush is ignored.
C9_FlushOnExit ==
    /\ (sinkPc = "done" /\ debug_log_file = "Some") =>
          /\ flushed \in {"ok", "err"}
          /\ flushed = "ok" =>
                /\ buffered = <<>>
                /\ disk = WrittenBytes(handled)
    /\ flushed # "no" => sinkPc = "done"

\* The logger terminated after a successful flush that carried a written
\* line from the BufWriter to the file.
C9_Witness ==
    /\ sinkPc = "done"
    /\ flushed = "ok"
    /\ \E i \in DOMAIN handled : handled[i].result = "ok"
    /\ disk # <<>>

(***************************************************************************)
(* C10                                                                     *)
(***************************************************************************)
\* C10: the records in the debug file, in the file's order, are a
\* subsequence of the records in the order they were sent; so each user's
\* records are in the file in the order of that user's requests.
C10_FilePreservesSendOrder ==
    debug_log_file = "Some" =>
        LET recs == RecsIn(FileView) IN
        /\ IsSubSeq(recs, sent)
        /\ \A i, j \in DOMAIN recs :
              (i < j /\ recs[i][1] = recs[j][1]) => recs[i][2] < recs[j][2]

\* The file holds two records of one user, in the order of its requests.
C10_Witness ==
    /\ sinkPc = "done"
    /\ \E u \in UserIds : RecsIn(disk) = <<Rec(u, 1), Rec(u, 2)>>

(***************************************************************************)
(* C11                                                                     *)
(***************************************************************************)
\* C11: after a finished run with a debug file configured in which no
\* request failed, the debug file exists and has no line.
C11_NoFailureEmptyFile ==
    (/\ ctrlPc = "finished"
     /\ configuration.debug_log_file # ""
     /\ fail_count = 0) =>
        /\ fileExists
        /\ file_length(disk) = 0

\* A run with a debug file finished in which both task sets had successful
\* requests and none failed.
C11_Witness ==
    /\ ctrlPc = "finished"
    /\ configuration.debug_log_file # ""
    /\ fail_count = 0
    /\ \A k \in Keys : requests[k].success_count > 0
    /\ fileExists

(***************************************************************************)
(* C12                                                                     *)
(***************************************************************************)
IsPrefix(a, b) == Len(a) <= Len(b) /\ SubSeq(b, 1, Len(a)) = a

\* C12: once the logger has opened the debug file, the file and the
\* BufWriter together hold the bytes written for the records received in
\* this run and nothing else, whatever the file held before; and every step
\* leaves what is in the file in place and at most appends to it.
C12_TruncatedThenAppendOnly ==
    /\ [](debug_log_file = "Some" => FileView = WrittenBytes(handled))
    /\ [][debug_log_file = "Some" => IsPrefix(disk, disk')]_vars

\* The logger terminated on a file that had content before the run and now
\* holds the line of a record of this run, and nothing else.
C12_Witness ==
    /\ sinkPc = "done"
    /\ atCreate.truncated
    /\ flushed = "ok"
    /\ Len(handled) = 1
    /\ disk = Line(configuration.debug_log_format, handled[1].rec)

(***************************************************************************)
(* C13                                                                     *)
(***************************************************************************)
\* C13: a running user can always perform a failing request, send of the
\* debug record included, whatever the number of messages queued on the
\* debug channel and wherever the logger is (not started, creating the
\* file, writing, terminated); only the request budget of the model stops
\* it.
C13_SendNeverBlocks ==
    \A u \in UserIds :
        (Alive /\ userState[u] = "Running" /\ TotalReq < MaxReq) =>
            ENABLED UserRequestOutcome(u, FALSE)

\* The logger is in the middle of a write, a message is queued behind the
\* record it is writing, and a running user can send one more record.
C13_Witness ==
    /\ sinkPc = "write"
    /\ log_receiver # <<>>
    /\ \E u \in UserIds :
        /\ userState[u] = "Running"
        /\ TotalReq < MaxReq
        /\ ENABLED UserRequestOutcome(u, FALSE)

(***************************************************************************)
(* C14                                                                     *)
(***************************************************************************)
\* Requests performed by the users whose TaskSet hits key k.
RECURSIVE ReqOf(_, _)
ReqOf(k, us) ==
    IF us = {} THEN 0
    ELSE LET u == CHOOSE x \in us : TRUE
         IN (IF KeyOf(u) = k THEN reqCount[u] ELSE 0) + ReqOf(k, us \ {u})

Spawned == {u \in UserIds : userState[u] # "Idle"}
\* Hatching is over.
Hatched == ctrlPc \in {"running", "stopping", "shutdown", "finished"}

RECURSIVE Acquired(_, _)
Acquired(a, b) ==
    IF a > b THEN 0 ELSE throttle.acq[b + 1] + Acquired(a, b - 1)

SentBeforeCreate == Prefix(sent, atCreate.sent)

\* Of these, the records sent ahead of the empty message, if the logger
\* ended on it.
SentBeforeCreateAheadOfNone ==
    IF lastRecv = "shutdown"
    THEN Prefix(sent, Min(atCreate.sent, noneAt))
    ELSE SentBeforeCreate

\* C18 as stated: when the logger has terminated with a debug file, every
\* record sent before the file was created has been taken by the loop.
C18_SentBeforeCreateConsumed ==
    (sinkPc = "done" /\ debug_log_file = "Some") =>
        IsPrefix(SentBeforeCreate, HandledRecs)

\* C18, amended: until File::create has returned the logger has taken no
\* message, so every record sent so far is still queued; and when the
\* logger has terminated with a debug file, the records sent before the
\* file was created and ahead of the empty message are the first ones the
\* loop took, each was handed to file.write, and if the writes took every
\* line in full and the flush succeeded their lines open the file.
C18_QueuedUntilCreated ==
    /\ sinkPc \in {"unspawned", "create"} =>
         /\ handled = <<>>
         /\ goose_debug = NoRec
         /\ lastRecv = "nothing"
         /\ ChannelRecs(log_receiver) = sent
    /\ (sinkPc = "done" /\ debug_log_file = "Some") =>
         LET early == SentBeforeCreateAheadOfNone IN
         /\ IsPrefix(early, HandledRecs)
         /\ \A i \in 1..Len(early) : handled[i].result # "discarded"
         /\ ((\A i \in 1..Len(early) : handled[i].result = "ok")
               /\ flushed = "ok") =>
              IsPrefix(ExpectedLines(SubSeq(handled, 1, Len(early))), disk)

\* The logger has terminated; a record was sent before the file was
\* created, and its line is the first of the file.
C18_Witness ==
    /\ sinkPc = "done"
    /\ debug_log_file = "Some"
    /\ flushed = "ok"
    /\ atCreate.sent >= 1
    /\ Len(handled) >= 1
    /\ handled[1].rec = sent[1]
    /\ handled[1].result = "ok"
    /\ IsPrefix(Line(configuration.debug_log_format, sent[1]), disk)

(***************************************************************************)
(* C19                                                                     *)
(***************************************************************************)
\* C19: once recv() has returned the empty message, no step takes a message
\* from the channel (the queue only grows at its end), none handles or
\* writes a record, and what has been written stays as it is; the file
\* changes only by the one flush, which moves the BufWriter's bytes to the
\* file, and after the flush has returned nothing touches the file again.
C19_NothingAfterNone ==
    [][lastRecv = "shutdown" =>
         /\ IsPrefix(log_receiver, log_receiver')
         /\ UNCHANGED <<lastRecv, handled, goose_debug, fileExists>>
         /\ FileView' = FileView
         /\ disk' # disk => (flushed = "no" /\ flushed' = "ok")
         /\ flushed # "no" => UNCHANGED <<disk, buffered, flushed>>
         /\ sinkPc \in {"cleanup", "done"}
         /\ sinkPc' \in {"cleanup", "done"}]_vars

\* The logger terminated on the empty message with a record written and
\* flushed to the file, while a record sent behind the empty message is
\* still queued and a user is still running.
C19_Witness ==
    /\ sinkPc = "done"
    /\ lastRecv = "shutdown"
    /\ flushed = "ok"
    /\ disk # <<>>
    /\ ChannelRecs(log_receiver) # <<>>
    /\ \E u \in UserIds : userState[u] = "Running"

TypeOK ==
    /\ atCreate.sent \in -1..MaxReq
    /\ atCreate.on \in BOOLEAN
    /\ ~atCreate.on => atCreate = NoHistory
    /\ throttle.tokens \in 0..throttle.C
    /\ throttle.now \in 0..Duration
    /\ Len(throttle.acq) = throttle.now + 1
    /\ users \in 0..USERS
    /\ metrics_file \in 0..MaxReq
    /\ ctrlPc \in {"setup", "setup_failed", "hatching", "running",
                   "stopping", "shutdown", "finished"}
    /\ sinkPc \in {"unspawned", "create", "recv", "write", "cleanup",
                   "done", "exited", "panicked"}
    /\ debug_log_file \in {"None", "Some"}
    /\ lastRecv \in {"nothing", "record", "shutdown", "closed"}
    /\ flushed \in {"no", "ok", "err"}
    /\ created \in {"no", "ok", "err"}
====
